---- MODULE Spec2Model ----
(***************************************************************************)
(* WhaleScope main process: one-shot Python workers (runPythonScript), the *)
(* IPC handlers built on them, and the Flask backend supervisor.           *)
(*                                                                         *)
(* The repository holds two main-process files; `impl` says which one is   *)
(* running: "main1" (try/catch everywhere, binance_polar branch) or        *)
(* "main2" (the DEV + DMG variant).                                        *)
(*                                                                         *)
(* Every JavaScript string is a sequence of string pieces: a process       *)
(* output is a sequence of one-character pieces, a message a sequence of   *)
(* text pieces, a path a sequence of components.                           *)
(***************************************************************************)
EXTENDS Integers, Sequences, FiniteSets, TLC

\* ------------------------------------------------------------------ bounds
MaxOut == 3
MaxErr == 2
MaxBackends == 2
MaxQuits == 2
MaxActivates == 2
MaxPath == 2
MaxClock == 1

\* ----------------------------------------------------------------- strings
WS == {" ", "\n"}

RECURSIVE TrimStart(_)
TrimStart(s) ==
  IF s = <<>> THEN <<>>
  ELSE IF Head(s) \in WS THEN TrimStart(Tail(s)) ELSE s

RECURSIVE TrimEnd(_)
TrimEnd(s) ==
  IF s = <<>> THEN <<>>
  ELSE IF s[Len(s)] \in WS THEN TrimEnd(SubSeq(s, 1, Len(s) - 1)) ELSE s

\* String.prototype.trim
Trim(s) == TrimEnd(TrimStart(s))

\* the pieces a worker can write, one per data event
OutChars == {" ", "\n", "a"}
ErrLines == {"python3: can't open file", "Traceback", "\n"}

\* what the interpreter itself writes when the script file is missing
PyCantOpen == <<"python3: can't open file", "\n">>

\* the value `code` of the close event: a number, or null after a signal
ExitCodes == {"0", "1", "2", "null"}

\* ------------------------------------------------------------------- paths
RECURSIVE Normalize(_)
\* path.normalize on a sequence of components: ".." removes its predecessor
Normalize(p) ==
  IF \E i \in 1..Len(p) : p[i] = ".."
  THEN LET i == CHOOSE k \in 1..Len(p) :
                  p[k] = ".." /\ \A j \in 1..(k - 1) : p[j] # ".."
       IN  Normalize(SubSeq(p, 1, i - 2) \o SubSeq(p, i + 1, Len(p)))
  ELSE p

\* path.join / path.resolve on an absolute first part
Join(p, q) == Normalize(p \o q)

\* path.basename
Basename(p) == IF p = <<>> THEN <<>> ELSE <<p[Len(p)]>>

\* __dirname of the main-process file, and process.resourcesPath
Dirname == <<"project", "electron">>
ResourcesPath == <<"Resources">>

ProjectRoot(im, dev) ==
  IF im = "main1"
  THEN IF dev THEN Join(Dirname, <<"..">>) ELSE ResourcesPath
  ELSE IF dev THEN Join(Dirname, <<"..", "python">>)
              ELSE Join(ResourcesPath, <<"pyapp">>)

PythonPath(im, dev) ==
  IF im = "main1"
  THEN IF dev THEN Join(ProjectRoot(im, dev), <<".venv", "bin", "python3">>)
              ELSE Join(ResourcesPath, <<"pyapp", "bin", "python3">>)
  ELSE IF dev THEN Join(ProjectRoot(im, dev), <<"..", ".venv", "bin", "python3">>)
              ELSE Join(ProjectRoot(im, dev), <<"bin", "python3">>)

\* main2 only
GetScriptPath(im, dev, scriptName) ==
  Join(ProjectRoot(im, dev), <<"whalescope_scripts">> \o scriptName)

\* no relocation: the caller's path goes to the interpreter as it is
RealScriptPathAsGiven(im, dev, scriptPath) == scriptPath

\* the script handed to the interpreter by runPythonScript
RealScriptPath(im, dev, scriptPath) ==
  IF im = "main1"
  THEN IF dev THEN scriptPath
       ELSE Join(ResourcesPath,
                 <<"python", "whalescope_scripts">> \o Basename(scriptPath))
  ELSE GetScriptPath(im, dev, scriptPath)

\* ------------------------------------------------------------------- state
VARIABLES
  impl,      \* which main-process file runs: "main1" or "main2"
  isDev,     \* !app.isPackaged
  req,       \* IPC requests: request id -> handler invocation
  proc,      \* request id -> the child of its runPythonScript call
  fs,        \* files the handlers and workers touch: path -> content
  opened,    \* paths handed to shell.openPath
  uncaught,  \* exceptions thrown outside every handler (uncaughtException)
  clock,     \* Date.now()
  keysFile,  \* api_keys.json in the userData directory
  backendProcess, \* the global reference to the Flask child: 0 is null
  backends,  \* every Flask child spawned so far, in spawn order
  app        \* application lifecycle

vars == <<impl, isDev, req, proc, fs, opened, uncaught, clock, keysFile,
          backendProcess, backends, app>>

\* what the request handlers never touch
supervisor == <<backendProcess, backends, app>>

Impls == {"main1", "main2"}

\* --------------------------------------------------------- runPythonScript
NoProc ==
  [status |-> "none", interpOK |-> TRUE, scriptOK |-> TRUE,
   python |-> <<>>, script |-> <<>>, args |-> <<>>,
   stdout |-> <<>>, stderr |-> <<>>, code |-> "none",
   promise |-> "none", value |-> <<>>, wrote |-> FALSE]

\* new Promise(...): resolve the script, spawn, attach the listeners.
\* interpOK and scriptOK are the environment: whether the interpreter can be
\* executed and whether the script file is there.
RunPythonScript(im, dev, scriptPath, args, interpOK, scriptOK) ==
  [NoProc EXCEPT
     !.status = IF interpOK THEN "running" ELSE "spawnfail",
     !.interpOK = interpOK, !.scriptOK = scriptOK,
     !.python = PythonPath(im, dev),
     !.script = RealScriptPath(im, dev, scriptPath),
     !.args = args,
     !.promise = "pending"]

\* `Python exited with code ${code}`
ExitedMessage(code) == <<"Python exited with code ", code>>

\* stderr || `Python exited with code ${code}`
RejectMessage(stderr, code) ==
  IF stderr # <<>> THEN stderr ELSE ExitedMessage(code)

\* the close handler without the fallback text: rejects with stderr as it is
OnCloseNoFallback(p, code) ==
  IF code = "0"
  THEN [p EXCEPT !.status = "closed", !.code = code,
                 !.promise = "resolved", !.value = Trim(p.stdout)]
  ELSE [p EXCEPT !.status = "closed", !.code = code,
                 !.promise = "rejected", !.value = p.stderr]

\* proc.on("close", code => ...)
OnClose(p, code) ==
  IF code = "0"
  THEN [p EXCEPT !.status = "closed", !.code = code,
                 !.promise = "resolved", !.value = Trim(p.stdout)]
  ELSE [p EXCEPT !.status = "closed", !.code = code,
                 !.promise = "rejected",
                 !.value = RejectMessage(p.stderr, code)]

\* one buffer for all invocations: a chunk lands in every running one
ChildStdoutShared(r, chunk) ==
  /\ proc[r].status = "running"
  /\ proc[r].scriptOK
  /\ \A x \in DOMAIN proc : Len(proc[x].stdout) + Len(chunk) <= MaxOut
  /\ proc' = [x \in DOMAIN proc |->
                IF proc[x].status = "running"
                THEN [proc[x] EXCEPT !.stdout = @ \o chunk] ELSE proc[x]]
  /\ UNCHANGED <<impl, isDev, req, fs, opened, uncaught, clock, keysFile, supervisor>>

\* proc.stdout.on("data", d => stdout += d.toString())
ChildStdout(r, chunk) ==
  /\ proc[r].status = "running"
  /\ proc[r].scriptOK
  /\ Len(proc[r].stdout) + Len(chunk) <= MaxOut
  /\ proc' = [proc EXCEPT ![r].stdout = @ \o chunk]
  /\ UNCHANGED <<impl, isDev, req, fs, opened, uncaught, clock, keysFile, supervisor>>

\* proc.stderr.on("data", d => stderr += d.toString())
\* With the script file missing the only writer is the interpreter itself.
ChildStderr(r, chunk) ==
  /\ proc[r].status = "running"
  /\ Len(proc[r].stderr) + Len(chunk) <= MaxErr
  /\ proc[r].scriptOK \/ (chunk = PyCantOpen /\ proc[r].stderr = <<>>)
  /\ proc' = [proc EXCEPT ![r].stderr = @ \o chunk]
  /\ UNCHANGED <<impl, isDev, req, fs, opened, uncaught, clock, keysFile, supervisor>>

\* 'close': the child has ended and its pipes are drained. An interpreter
\* that finds no script has written its complaint and exits with 2.
ChildClose(r, code) ==
  /\ proc[r].status = "running"
  /\ proc[r].scriptOK \/ (code = "2" /\ proc[r].stderr = PyCantOpen)
  /\ proc' = [proc EXCEPT ![r] = OnClose(@, code)]
  /\ UNCHANGED <<impl, isDev, req, fs, opened, uncaught, clock, keysFile, supervisor>>

\* The interpreter cannot be executed: the child emits 'error'. No listener
\* is attached for it, so the emit throws out of the event loop callback:
\* an uncaught exception of the main process. 'close' does not follow (the
\* throw leaves onexit before the child is marked closed), and the promise
\* keeps its state.
ChildSpawnError(r) ==
  /\ proc[r].status = "spawnfail"
  /\ proc' = [proc EXCEPT ![r].status = "errored"]
  /\ uncaught' = uncaught + 1
  /\ UNCHANGED <<impl, isDev, req, fs, opened, clock, keysFile, supervisor>>

\* ------------------------------------------------------------- file system
Absent == "absent"

\* files the workers produce, destinations the user can pick, chart images
TmpPaths == {<<"a">>, <<"b">>}
DestPaths == {<<"dest.out">>, <<"a">>}
TempDir == <<"tmp">>

\* path.join(app.getPath("temp"), `allium_chart_${Date.now()}.png`): the last
\* three pieces are the file name
ChartPath(t) == TempDir \o <<"allium_chart_", ToString(t), ".png">>

\* the image data request r sends: chartImageBase64 without its prefix
ChartImage(r) == "png" \o ToString(r)

Exists(files, p) == p \in DOMAIN files /\ files[p] # Absent

\* a rename instead of a copy: the source is gone afterwards
MoveFile(files, src, dest) ==
  [p \in DOMAIN files |->
     IF p = dest THEN files[src] ELSE IF p = src THEN Absent ELSE files[p]]

\* fs.copyFileSync(src, dest), src existing
CopyFile(files, src, dest) == [files EXCEPT ![dest] = files[src]]

\* fs.writeFileSync(path, data)
WriteFile(files, p, data) == [files EXCEPT ![p] = data]

\* fs.existsSync(apiKeysPath) false
NoKeysFile == [exists |-> FALSE, keys |-> <<>>]

\* JSON.stringify(keys, null, 2) and JSON.parse of the file's text: the text
\* lists the members of the object, the parse collects them again
KeyNames == <<"binance", "allium">>
JsonStringify(keys) == SelectSeq(KeyNames, LAMBDA k : k \in keys)
JsonParse(text) == {text[i] : i \in DOMAIN text}

\* ------------------------------------------------------------ IPC results
\* a handler's return value: undefined, or an object with the keys `keys`
Undefined ==
  [defined |-> FALSE, keys |-> {}, canceled |-> FALSE, success |-> FALSE,
   error |-> <<>>, filePath |-> <<>>, output |-> <<>>, keysOut |-> {}]

Object(keys) == [Undefined EXCEPT !.defined = TRUE, !.keys = keys]

DisabledMsg == <<"Export is disabled for Binance Polar.">>
NotSupportedMsg == <<"Export not supported here.">>
UnknownSectionMsg(section) == <<"Unknown PDF export section: ", section>>
TypeErrorMsg == <<"TypeError: Cannot read properties of undefined">>
CopyEnoentMsg == <<"ENOENT: no such file or directory, copyfile">>
WriteFailMsg == <<"ENOSPC: no space left on device, write">>
NoHandlerMsg == <<"No handler registered">>

\* ---------------------------------------------------------------- requests
ExportHandlers == {"marketbrain:exportCsv", "binance_market:exportCsv", "exportPDF"}
Sections == {"allium", "binance_market", "binance_polar", "eth"}
WiredSections == {"allium", "binance_market"}

NoArg == [present |-> FALSE, section |-> "", symbols |-> FALSE, chart |-> FALSE,
          script |-> <<>>, extra |-> {}, keys |-> {}]

\* the endpoint loadData fetches: /api/{section}, with or without "?query"
NoUrl == [section |-> "", query |-> FALSE, keys |-> {}]

\* steps: the steps the handler has taken, in order; open: what has become
\* of its shell.openPath call
IdleReq ==
  [handler |-> "none", arg |-> NoArg, pc |-> "idle", ipc |-> "none",
   result |-> Undefined, thrown |-> <<>>, dialogs |-> 0, dest |-> <<>>,
   chart |-> <<>>, spawns |-> 0, copies |-> 0, canceled |-> FALSE,
   url |-> NoUrl, steps |-> <<>>, open |-> "none"]

\* String.prototype.toUpperCase on the symbols the GUI sends
Upper(s) == CASE s = "btc" -> "BTC" [] s = "eth" -> "ETH" [] OTHER -> s

Symbol == "btc"
StartDate == "2025-09-01"
EndDate == "2025-09-30"

\* ipcMain.handle registrations of each file
Registered(im) ==
  IF im = "main1"
  THEN ExportHandlers \cup {"loadData", "saveApiKeys", "loadApiKeys", "openPath",
                            "runPython", "getLidoData"}
  ELSE ExportHandlers \cup {"loadData", "saveApiKeys", "loadApiKeys"}

\* whether the part of the handler after the save dialog runs inside try/catch
HasTry(im, h) ==
  IF im = "main1" THEN TRUE ELSE h = "marketbrain:exportCsv"

\* the value returned when saveDialog.canceled
CancelResult(im, h) ==
  IF h = "exportPDF"
  THEN IF im = "main1" THEN [Object({"success"}) EXCEPT !.success = FALSE]
                       ELSE Undefined
  ELSE IF im = "main2" /\ h = "binance_market:exportCsv"
       THEN Undefined
       ELSE [Object({"canceled"}) EXCEPT !.canceled = TRUE]

\* the value returned after copy and open
SuccessResult(im, h, dest) ==
  IF im = "main1"
  THEN IF h = "exportPDF"
       THEN [Object({"success", "filePath"}) EXCEPT !.success = TRUE, !.filePath = dest]
       ELSE [Object({"canceled", "filePath"}) EXCEPT !.canceled = FALSE, !.filePath = dest]
  ELSE IF h = "marketbrain:exportCsv"
       THEN [Object({"success", "filePath"}) EXCEPT !.success = TRUE, !.filePath = dest]
       ELSE [Object({"success"}) EXCEPT !.success = TRUE]

\* the value returned by the catch block
CatchResult(im, h, msg) ==
  IF im = "main1" /\ h # "exportPDF"
  THEN [Object({"canceled", "error"}) EXCEPT !.canceled = FALSE, !.error = msg]
  ELSE [Object({"success", "error"}) EXCEPT !.success = FALSE, !.error = msg]

\* the handler goes through the steps `names`, in this order
Step(q, names) == [q EXCEPT !.steps = @ \o names]

\* the handler returns `res`
Return(q, res) ==
  Step([q EXCEPT !.pc = "done", !.ipc = "resolved", !.result = res], <<"return">>)

\* the async handler throws `msg` outside any try: its promise rejects
Reject(q, msg) ==
  Step([q EXCEPT !.pc = "done", !.ipc = "rejected", !.thrown = msg], <<"throw">>)

\* an exception `msg` in the part after the dialog
Throw(im, q, msg) ==
  IF HasTry(im, q.handler)
  THEN Return(q, CatchResult(im, q.handler, msg))
  ELSE Reject(q, msg)

\* ----------------------------------------------------------- export plans
ScriptsDir == <<"python", "whalescope_scripts">>

S(x) == <<x>>

\* what the handler does between the confirmed dialog and runPythonScript:
\* kind "spawn" (script, args), "throw" (msg) or "return" (res); chart is the
\* chart-image path it writes on the way, <<>> for none
Plan(kind, script, args, chart, msg, res) ==
  [kind |-> kind, script |-> script, args |-> args, chart |-> chart,
   msg |-> msg, res |-> res]

\* script argument of runPythonScript: a path in main1, a file name in main2
ScriptArg(im, root, name) ==
  IF im = "main1" THEN Join(root, ScriptsDir \o <<name>>) ELSE <<name>>

MarketbrainCsvPlan(im, dev, a) ==
  Plan("spawn",
       ScriptArg(im, IF dev THEN ProjectRoot(im, dev) ELSE ResourcesPath,
                 "export_marketbrain_csv.py"),
       <<IF a.symbols THEN S(Symbol) ELSE S("undefined"), S(StartDate), S(EndDate)>>,
       <<>>, <<>>, Undefined)

BinanceCsvPlan(im, dev, a) ==
  IF ~a.symbols
  THEN Plan("throw", <<>>, <<>>, <<>>, TypeErrorMsg, Undefined)
  ELSE Plan("spawn",
            ScriptArg(im, IF dev THEN ProjectRoot(im, dev) ELSE ResourcesPath,
                      "export_binance_market_csv.py"),
            <<S(Upper(Symbol)), S("--start-date"), S(StartDate),
              S("--end-date"), S(EndDate)>>,
            <<>>, <<>>, Undefined)

\* a dispatch without the last two branches: every section that is not
\* allium is exported as binance_market
PdfPlanFallthrough(im, dev, a, t) ==
  LET chart == IF a.chart THEN ChartPath(t) ELSE <<>>
      root == ProjectRoot(im, dev)
  IN
  IF a.section = "allium"
  THEN Plan("spawn", ScriptArg(im, root, "export_pdf_allium.py"),
            <<S(Upper(Symbol)), S(StartDate), S(EndDate)>>
              \o (IF chart # <<>> THEN <<chart>> ELSE <<>>),
            chart, <<>>, Undefined)
  ELSE Plan("spawn", ScriptArg(im, root, "export_pdf_binance_market.py"),
            <<S(Upper(Symbol)), S("--start-date"), S(StartDate),
              S("--end-date"), S(EndDate)>>,
            <<>>, <<>>, Undefined)

\* Array.prototype.push and Array.prototype.unshift
Push(args, x) == Append(args, x)
UnshiftAtEnd(args, xs) == args \o xs
Unshift(args, xs) == xs \o args

\* the argument list of the allium PDF worker. main1: args = [SYMBOL, start,
\* end], then push(chartPath) if there is one. main2: args = [], push(chartPath)
\* if there is one, then unshift(SYMBOL, start, end).
AlliumArgs(im, chart) ==
  LET head == <<S(Upper(Symbol)), S(StartDate), S(EndDate)>> IN
  IF im = "main1"
  THEN IF chart # <<>> THEN Push(head, chart) ELSE head
  ELSE Unshift(IF chart # <<>> THEN Push(<<>>, chart) ELSE <<>>, head)

PdfPlan(im, dev, a, t) ==
  LET chart == IF a.chart THEN ChartPath(t) ELSE <<>>
      root == ProjectRoot(im, dev)
  IN
  IF a.section = "allium"
  THEN IF ~a.symbols
       THEN Plan("throw", <<>>, <<>>, chart, TypeErrorMsg, Undefined)
       ELSE Plan("spawn", ScriptArg(im, root, "export_pdf_allium.py"),
                 AlliumArgs(im, chart), chart, <<>>, Undefined)
  ELSE IF a.section = "binance_market"
  THEN IF ~a.symbols
       THEN Plan("throw", <<>>, <<>>, <<>>, TypeErrorMsg, Undefined)
       ELSE Plan("spawn", ScriptArg(im, root, "export_pdf_binance_market.py"),
                 <<S(Upper(Symbol)), S("--start-date"), S(StartDate),
                   S("--end-date"), S(EndDate)>>,
                 <<>>, <<>>, Undefined)
  ELSE IF im = "main1"
  THEN IF a.section = "binance_polar"
       THEN Plan("return", <<>>, <<>>, <<>>, <<>>,
                 [Object({"success", "error"}) EXCEPT !.error = DisabledMsg])
       ELSE Plan("throw", <<>>, <<>>, <<>>, UnknownSectionMsg(a.section), Undefined)
  ELSE Plan("return", <<>>, <<>>, <<>>, <<>>,
            [Object({"success", "error"}) EXCEPT !.error = NotSupportedMsg])

ExportPlan(im, dev, h, a, t) ==
  IF h = "marketbrain:exportCsv" THEN MarketbrainCsvPlan(im, dev, a)
  ELSE IF h = "binance_market:exportCsv" THEN BinanceCsvPlan(im, dev, a)
  ELSE PdfPlan(im, dev, a, t)

\* -------------------------------------------------------- export handlers
\* ipcRenderer.invoke(h, a) for an export handler: the parameter list
\* destructures `a`, then the save dialog opens
InvokeExport(r, h, a) ==
  /\ req[r].pc = "idle"
  /\ h \in ExportHandlers
  /\ req' = [req EXCEPT ![r] =
       IF ~a.present
       THEN Reject([@ EXCEPT !.handler = h, !.arg = a], TypeErrorMsg)
       ELSE Step([@ EXCEPT !.handler = h, !.arg = a, !.pc = "dialog",
                           !.ipc = "pending", !.dialogs = @ + 1], <<"prompt">>)]
  /\ UNCHANGED <<impl, isDev, proc, fs, opened, uncaught, clock, keysFile, supervisor>>

\* the cancel flag looked at only after the worker has been started
DialogCancelSpawns(r) ==
  /\ req[r].pc = "dialog"
  /\ req' = [req EXCEPT ![r] =
       [@ EXCEPT !.canceled = TRUE, !.pc = "awaitWorker", !.spawns = @ + 1]]
  /\ proc' = [proc EXCEPT ![r] =
       RunPythonScript(impl, isDev, <<"export_marketbrain_csv.py">>, <<>>, TRUE, TRUE)]
  /\ UNCHANGED <<impl, isDev, fs, opened, uncaught, clock, keysFile, supervisor>>

\* the user cancels the save dialog
DialogCancel(r) ==
  /\ req[r].pc = "dialog"
  /\ req' = [req EXCEPT ![r] =
       Return([@ EXCEPT !.canceled = TRUE], CancelResult(impl, @.handler))]
  /\ UNCHANGED <<impl, isDev, proc, fs, opened, uncaught, clock, keysFile, supervisor>>

\* the user picks `dest`; the handler runs up to `await runPythonScript(...)`.
\* writeOK: whether the chart image can be written; interpOK, scriptOK: as
\* for RunPythonScript
DialogConfirm(r, dest, writeOK, interpOK, scriptOK) ==
  /\ req[r].pc = "dialog"
  /\ LET q == [req[r] EXCEPT !.dest = dest]
         plan == ExportPlan(impl, isDev, q.handler, q.arg, clock)
         writes == plan.chart # <<>>
         qw == IF writes THEN Step(q, <<"write">>) ELSE q
         qc == IF writes /\ writeOK THEN [qw EXCEPT !.chart = plan.chart] ELSE qw
     IN
     /\ writes \/ writeOK
     /\ fs' = IF writes /\ writeOK THEN WriteFile(fs, plan.chart, ChartImage(r)) ELSE fs
     /\ IF writes /\ ~writeOK
        THEN /\ req' = [req EXCEPT ![r] = Throw(impl, qw, WriteFailMsg)]
             /\ interpOK /\ scriptOK
             /\ UNCHANGED proc
        ELSE IF plan.kind = "throw"
        THEN /\ req' = [req EXCEPT ![r] = Throw(impl, qc, plan.msg)]
             /\ interpOK /\ scriptOK
             /\ UNCHANGED proc
        ELSE IF plan.kind = "return"
        THEN /\ req' = [req EXCEPT ![r] = Return(qc, plan.res)]
             /\ interpOK /\ scriptOK
             /\ UNCHANGED proc
        ELSE /\ req' = [req EXCEPT ![r] =
                          Step([qc EXCEPT !.pc = "awaitWorker", !.spawns = @ + 1],
                               <<"spawn">>)]
             /\ proc' = [proc EXCEPT ![r] =
                          RunPythonScript(impl, isDev, plan.script, plan.args,
                                          interpOK, scriptOK)]
  /\ UNCHANGED <<impl, isDev, opened, uncaught, clock, keysFile, supervisor>>

\* the worker leaves an artifact on disk
WorkerWrite(r, p, data) ==
  /\ proc[r].status = "running"
  /\ proc[r].scriptOK
  /\ ~proc[r].wrote
  /\ proc' = [proc EXCEPT ![r].wrote = TRUE]
  /\ fs' = WriteFile(fs, p, data)
  /\ UNCHANGED <<impl, isDev, req, opened, uncaught, clock, keysFile, supervisor>>

\* a handler that copies what the worker has printed so far, without waiting
\* for the worker to end
ResumeExportBeforeExit(r) ==
  /\ req[r].pc = "awaitWorker"
  /\ req[r].handler \in ExportHandlers
  /\ proc[r].status = "running"
  /\ Exists(fs, Trim(proc[r].stdout))
  /\ fs' = CopyFile(fs, Trim(proc[r].stdout), req[r].dest)
  /\ opened' = opened \cup {req[r].dest}
  /\ req' = [req EXCEPT ![r] =
       Return(Step([@ EXCEPT !.copies = @ + 1, !.open = "pending"],
                   <<"copy", "open">>),
              SuccessResult(impl, @.handler, @.dest))]
  /\ UNCHANGED <<impl, isDev, proc, uncaught, clock, keysFile, supervisor>>

\* a handler that takes what the worker printed whether the worker ended
\* well or not
ResumeExportIgnoresFailure(r) ==
  /\ req[r].pc = "awaitWorker"
  /\ req[r].handler \in ExportHandlers
  /\ proc[r].promise \in {"resolved", "rejected"}
  /\ Exists(fs, Trim(proc[r].stdout))
  /\ fs' = CopyFile(fs, Trim(proc[r].stdout), req[r].dest)
  /\ opened' = opened \cup {req[r].dest}
  /\ req' = [req EXCEPT ![r] =
       Return(Step([@ EXCEPT !.copies = @ + 1, !.open = "pending"],
                   <<"copy", "open">>),
              SuccessResult(impl, @.handler, @.dest))]
  /\ UNCHANGED <<impl, isDev, proc, uncaught, clock, keysFile, supervisor>>

\* the awaited promise has settled: copy, open, return -- or the rejection.
\* shell.openPath is called and its promise dropped: open is "pending" from
\* here on, whatever becomes of it.
ResumeExport(r) ==
  /\ req[r].pc = "awaitWorker"
  /\ req[r].handler \in ExportHandlers
  /\ proc[r].promise \in {"resolved", "rejected"}
  /\ LET q == req[r]
         tmp == IF impl = "main1" \/ q.handler = "marketbrain:exportCsv"
                THEN Trim(proc[r].value) ELSE proc[r].value
     IN
     IF proc[r].promise = "rejected"
     THEN /\ req' = [req EXCEPT ![r] = Throw(impl, q, proc[r].value)]
          /\ UNCHANGED <<fs, opened>>
     ELSE IF ~Exists(fs, tmp)
     THEN /\ req' = [req EXCEPT ![r] = Throw(impl, Step(q, <<"copy">>), CopyEnoentMsg)]
          /\ UNCHANGED <<fs, opened>>
     ELSE /\ fs' = CopyFile(fs, tmp, q.dest)
          /\ opened' = opened \cup {q.dest}
          /\ req' = [req EXCEPT ![r] =
                       Return(Step([q EXCEPT !.copies = @ + 1, !.open = "pending"],
                                   <<"copy", "open">>),
                              SuccessResult(impl, q.handler, q.dest))]
  /\ UNCHANGED <<impl, isDev, proc, uncaught, clock, keysFile, supervisor>>

\* what becomes of an open: the viewer shows the file, or there is none for
\* it (the promise of shell.openPath resolves with an error text, which
\* nobody reads). An open that never completes stays "pending".
OpenOutcomes == {"shown", "failed"}

OpenSettles(r, outcome) ==
  /\ req[r].open = "pending"
  /\ req' = [req EXCEPT ![r].open = outcome]
  /\ UNCHANGED <<impl, isDev, proc, fs, opened, uncaught, clock, keysFile, supervisor>>

\* a millisecond passes: Date.now() grows
Tick ==
  /\ clock < MaxClock
  /\ clock' = clock + 1
  /\ UNCHANGED <<impl, isDev, req, proc, fs, opened, uncaught, keysFile, supervisor>>

\* ------------------------------------------------------- runPython handler
\* scripts a caller names: a bare file name, a path of the source tree
ScriptInputs ==
  {<<"lido_staking.py">>,
   <<"project", "python", "whalescope_scripts", "lido_staking.py">>}

\* what a caller can put into a script path: a parent step, a directory, a
\* file name
PathPieces == {"..", "dir", "x.py"}

\* every path of at most MaxPath pieces: bare names, names behind directory
\* components (relative or from the root), paths that climb with ".."
CallerScripts == UNION {[1..n -> PathPieces] : n \in 1..MaxPath}

\* a caller inside the main process calls runPythonScript(script) and awaits
CallRunPythonScript(r, script, interpOK, scriptOK) ==
  /\ req[r].pc = "idle"
  /\ req' = [req EXCEPT ![r] =
       [@ EXCEPT !.handler = "runPythonScript", !.pc = "awaitWorker",
                 !.arg = [NoArg EXCEPT !.present = TRUE, !.script = script],
                 !.spawns = @ + 1]]
  /\ proc' = [proc EXCEPT ![r] =
       RunPythonScript(impl, isDev, script, <<>>, interpOK, scriptOK)]
  /\ UNCHANGED <<impl, isDev, fs, opened, uncaught, clock, keysFile, supervisor>>

\* ipcRenderer.invoke("runPython", a): main2 registers no such handler. With
\* no argument, path.basename(undefined) throws in the packaged build and the
\* development build hands the text "undefined" to the interpreter.
InvokeRunPython(r, a, interpOK, scriptOK) ==
  /\ req[r].pc = "idle"
  /\ LET q == [req[r] EXCEPT !.handler = "runPython", !.arg = a] IN
     IF "runPython" \notin Registered(impl)
     THEN /\ req' = [req EXCEPT ![r] = Reject(q, NoHandlerMsg)]
          /\ interpOK /\ scriptOK
          /\ UNCHANGED proc
     ELSE IF ~a.present /\ ~isDev
     THEN /\ req' = [req EXCEPT ![r] =
                       Return(q, [Object({"success", "error"})
                                    EXCEPT !.error = TypeErrorMsg])]
          /\ interpOK /\ scriptOK
          /\ UNCHANGED proc
     ELSE /\ a.present \/ ~scriptOK
          /\ req' = [req EXCEPT ![r] =
                       [q EXCEPT !.pc = "awaitWorker", !.ipc = "pending",
                                 !.spawns = @ + 1]]
          /\ proc' = [proc EXCEPT ![r] =
                       RunPythonScript(impl, isDev,
                                       IF a.present THEN a.script ELSE <<"undefined">>,
                                       <<>>, interpOK, scriptOK)]
  /\ UNCHANGED <<impl, isDev, fs, opened, uncaught, clock, keysFile, supervisor>>

\* try { result = await ...; return {success: true, output: result} }
\* catch (err) { return {success: false, error: err.message} }
ResumeRunPython(r) ==
  /\ req[r].pc = "awaitWorker"
  /\ req[r].handler = "runPython"
  /\ proc[r].promise \in {"resolved", "rejected"}
  /\ req' = [req EXCEPT ![r] =
       Return(@, IF proc[r].promise = "resolved"
                 THEN [Object({"success", "output"})
                         EXCEPT !.success = TRUE, !.output = proc[r].value]
                 ELSE [Object({"success", "error"})
                         EXCEPT !.error = proc[r].value])]
  /\ UNCHANGED <<impl, isDev, proc, fs, opened, uncaught, clock, keysFile, supervisor>>

\* ----------------------------------------------------- the other handlers
FetchFailedMsg == <<"fetch failed">>
JsonSyntaxMsg == <<"SyntaxError: Unexpected token">>
WriteTypeErrorMsg == <<"TypeError: The \"data\" argument must be of type string">>
OpenTypeErrorMsg == <<"TypeError: Error processing argument at index 0">>

\* the own keys of params: section when it is given, and the others
ParamKeys(a) == (IF a.section = "" THEN {} ELSE {"section"}) \cup a.extra

\* an endpoint built without `delete q.section`
EndpointKeepsSection(a) ==
  IF a.section = "binance_polar"
  THEN [section |-> "binance_polar", query |-> FALSE, keys |-> {}]
  ELSE [section |-> IF a.section = "" THEN "undefined" ELSE a.section,
        query |-> TRUE, keys |-> ParamKeys(a)]

\* the endpoint of a loadData request: q = {...params}; delete q.section
Endpoint(a) ==
  IF a.section = "binance_polar"
  THEN [section |-> "binance_polar", query |-> FALSE, keys |-> {}]
  ELSE [section |-> IF a.section = "" THEN "undefined" ELSE a.section,
        query |-> TRUE, keys |-> ParamKeys(a) \ {"section"}]

\* ipcMain.handle("loadData"): params.section is read outside the try
InvokeLoadData(r, a) ==
  /\ req[r].pc = "idle"
  /\ LET q == [req[r] EXCEPT !.handler = "loadData", !.arg = a] IN
     req' = [req EXCEPT ![r] =
       IF ~a.present
       THEN Reject(q, TypeErrorMsg)
       ELSE [q EXCEPT !.pc = "awaitFetch", !.ipc = "pending", !.url = Endpoint(a)]]
  /\ UNCHANGED <<impl, isDev, proc, fs, opened, uncaught, clock, keysFile, supervisor>>

\* try { res = await fetch(endpoint); return await res.json() }
\* catch (err) { return {error: err.message} }
FetchDone(r, outcome) ==
  /\ req[r].pc = "awaitFetch"
  /\ req' = [req EXCEPT ![r] =
       Return(@, CASE outcome = "json" -> Object({"data"})
                   [] outcome = "notjson" ->
                        [Object({"error"}) EXCEPT !.error = JsonSyntaxMsg]
                   [] OTHER -> [Object({"error"}) EXCEPT !.error = FetchFailedMsg])]
  /\ UNCHANGED <<impl, isDev, proc, fs, opened, uncaught, clock, keysFile, supervisor>>

\* a save that adds the new keys to those the file already has
SaveApiKeysMerges(r, a, writeOK) ==
  /\ req[r].pc = "idle"
  /\ a.present /\ writeOK
  /\ req' = [req EXCEPT ![r] =
       Return([req[r] EXCEPT !.handler = "saveApiKeys", !.arg = a],
              [Object({"success"}) EXCEPT !.success = TRUE])]
  /\ keysFile' = [exists |-> TRUE,
                  keys |-> JsonStringify(JsonParse(keysFile.keys) \cup a.keys)]
  /\ UNCHANGED <<impl, isDev, proc, fs, opened, uncaught, clock, supervisor>>

\* ipcMain.handle("saveApiKeys"): main1 catches, main2 does not.
\* JSON.stringify(undefined) is undefined, which writeFileSync refuses.
SaveApiKeys(r, a, writeOK) ==
  /\ req[r].pc = "idle"
  /\ a.present \/ writeOK
  /\ LET q == [req[r] EXCEPT !.handler = "saveApiKeys", !.arg = a]
         failed == ~a.present \/ ~writeOK
         msg == IF ~a.present THEN WriteTypeErrorMsg ELSE WriteFailMsg
     IN
     /\ req' = [req EXCEPT ![r] =
          IF ~failed
          THEN Return(q, [Object({"success"}) EXCEPT !.success = TRUE])
          ELSE IF impl = "main1"
          THEN Return(q, [Object({"success", "error"}) EXCEPT !.error = msg])
          ELSE Reject(q, msg)]
     /\ keysFile' = IF failed THEN keysFile
                    ELSE [exists |-> TRUE, keys |-> JsonStringify(a.keys)]
  /\ UNCHANGED <<impl, isDev, proc, fs, opened, uncaught, clock, supervisor>>

\* ipcMain.handle("loadApiKeys")
LoadApiKeys(r) ==
  /\ req[r].pc = "idle"
  /\ LET q == [req[r] EXCEPT !.handler = "loadApiKeys"] IN
     req' = [req EXCEPT ![r] =
       Return(q, IF keysFile.exists
                 THEN [Object({"success", "keys"})
                         EXCEPT !.success = TRUE, !.keysOut = JsonParse(keysFile.keys)]
                 ELSE Object({"success", "keys"}))]
  /\ UNCHANGED <<impl, isDev, proc, fs, opened, uncaught, clock, keysFile, supervisor>>

\* ipcMain.handle("openPath") of main1: no try, no return value
OpenPath(r, a) ==
  /\ req[r].pc = "idle"
  /\ LET q == [req[r] EXCEPT !.handler = "openPath", !.arg = a] IN
     /\ req' = [req EXCEPT ![r] =
          IF "openPath" \notin Registered(impl) THEN Reject(q, NoHandlerMsg)
          ELSE IF ~a.present THEN Reject(q, OpenTypeErrorMsg)
          ELSE Return(q, Undefined)]
     /\ opened' = IF "openPath" \in Registered(impl) /\ a.present
                  THEN opened \cup {a.script} ELSE opened
  /\ UNCHANGED <<impl, isDev, proc, fs, uncaught, clock, keysFile, supervisor>>

\* JSON.parse succeeds on this text only, among those the model's workers write
IsJson(text) == text = <<"{}">>

\* ipcMain.handle("getLidoData") of main1
InvokeGetLidoData(r, interpOK, scriptOK) ==
  /\ req[r].pc = "idle"
  /\ LET q == [req[r] EXCEPT !.handler = "getLidoData"] IN
     IF "getLidoData" \notin Registered(impl)
     THEN /\ req' = [req EXCEPT ![r] = Reject(q, NoHandlerMsg)]
          /\ interpOK /\ scriptOK
          /\ UNCHANGED proc
     ELSE /\ req' = [req EXCEPT ![r] =
                       [q EXCEPT !.pc = "awaitWorker", !.ipc = "pending",
                                 !.spawns = @ + 1]]
          /\ proc' = [proc EXCEPT ![r] =
                       RunPythonScript(impl, isDev,
                         Join(ProjectRoot(impl, isDev), ScriptsDir \o <<"lido_staking.py">>),
                         <<>>, interpOK, scriptOK)]
  /\ UNCHANGED <<impl, isDev, fs, opened, uncaught, clock, keysFile, supervisor>>

\* try { return JSON.parse(await runPythonScript(...)) }
\* catch (err) { return {error: err.message} }
ResumeGetLidoData(r) ==
  /\ req[r].pc = "awaitWorker"
  /\ req[r].handler = "getLidoData"
  /\ proc[r].promise \in {"resolved", "rejected"}
  /\ req' = [req EXCEPT ![r] =
       Return(@, IF proc[r].promise = "rejected"
                 THEN [Object({"error"}) EXCEPT !.error = proc[r].value]
                 ELSE IF IsJson(proc[r].value)
                 THEN Object({"data"})
                 ELSE [Object({"error"}) EXCEPT !.error = JsonSyntaxMsg])]
  /\ UNCHANGED <<impl, isDev, proc, fs, opened, uncaught, clock, keysFile, supervisor>>

\* ------------------------------------------------------ backend supervisor
BackendScript(im, dev) ==
  IF im = "main1"
  THEN IF dev THEN Join(ProjectRoot(im, dev), ScriptsDir \o <<"backend_ultra_pro.py">>)
       ELSE Join(ResourcesPath, <<"pyapp", "whalescope_scripts", "backend_ultra_pro.py">>)
  ELSE GetScriptPath(im, dev, <<"backend_ultra_pro.py">>)

BackendCwd(im, dev) ==
  IF im = "main1" /\ ~dev THEN Join(ResourcesPath, <<"pyapp">>) ELSE ProjectRoot(im, dev)

\* spawn(pythonPath, [backendScript], {cwd, env, stdio: "inherit"})
BackendChild(im, dev, interpOK) ==
  [status |-> IF interpOK THEN "running" ELSE "spawnfail",
   python |-> PythonPath(im, dev), script |-> BackendScript(im, dev),
   cwd |-> BackendCwd(im, dev), signals |-> 0]

\* startPythonBackend(): spawn and store the child in backendProcess
StartPythonBackend(interpOK) ==
  /\ backends' = Append(backends, BackendChild(impl, isDev, interpOK))
  /\ backendProcess' = Len(backends) + 1

\* process.platform: "darwin" or any other
Platforms == {"darwin", "linux"}

\* the application before the ready event. created counts the windows made
\* so far and atFirstWindow the backends spawned when the first one was made.
InitApp(platform) ==
  [ready |-> FALSE, windows |-> 0, quits |-> 0, platform |-> platform,
   activates |-> 0, created |-> 0, atFirstWindow |-> 0, exited |-> FALSE,
   packed |-> FALSE, marked |-> {}]

\* the file afterPackFix changes the mode of, under the resource directory
\* of the bundle: appOutDir/<name>.app/Contents/Resources/python/bin/python3
AfterPackPython == Join(ResourcesPath, <<"python", "bin", "python3">>)

\* the afterPack hook of the build: fs.chmodSync(pythonPath, 0o755) in a try
\* whose catch only logs. chmodOK: the file is there.
AfterPack(chmodOK) ==
  /\ ~isDev
  /\ ~app.packed
  /\ ~app.ready
  /\ app' = [app EXCEPT !.packed = TRUE,
                        !.marked = IF chmodOK THEN @ \cup {AfterPackPython} ELSE @]
  /\ UNCHANGED <<impl, isDev, req, proc, fs, opened, uncaught, clock, keysFile,
                 backendProcess, backends>>

\* createWindow(), nb backends having been spawned so far
CreateWindow(a, nb) ==
  [a EXCEPT !.windows = @ + 1, !.created = @ + 1,
            !.atFirstWindow = IF a.created = 0 THEN nb ELSE @]

\* app.whenReady().then(() => { startPythonBackend(); createWindow(); ... })
WhenReady(interpOK) ==
  /\ ~app.ready
  /\ StartPythonBackend(interpOK)
  /\ app' = CreateWindow([app EXCEPT !.ready = TRUE], Len(backends'))
  /\ UNCHANGED <<impl, isDev, req, proc, fs, opened, uncaught, clock, keysFile>>

\* startPythonBackend() called once more. The application calls it from
\* whenReady only; this is the re-entrant call of the supervisor's start.
StartAgain(interpOK) ==
  /\ app.ready
  /\ Len(backends) < MaxBackends
  /\ StartPythonBackend(interpOK)
  /\ UNCHANGED <<impl, isDev, req, proc, fs, opened, uncaught, clock, keysFile, app>>

\* the Flask process ends; main1 logs the code
BackendExit(i) ==
  /\ i \in 1..Len(backends)
  /\ backends[i].status = "running"
  /\ backends' = [backends EXCEPT ![i].status = "exited"]
  /\ UNCHANGED <<impl, isDev, req, proc, fs, opened, uncaught, clock, keysFile,
                 backendProcess, app>>

\* the Flask process could not be spawned: main1 logs the 'error' event,
\* main2 has no listener for it
BackendSpawnError(i) ==
  /\ i \in 1..Len(backends)
  /\ backends[i].status = "spawnfail"
  /\ backends' = [backends EXCEPT ![i].status = "errored"]
  /\ uncaught' = IF impl = "main1" THEN uncaught ELSE uncaught + 1
  /\ UNCHANGED <<impl, isDev, req, proc, fs, opened, clock, keysFile,
                 backendProcess, app>>

\* app.on("before-quit") of main1: backendProcess.kill("SIGTERM"), which
\* delivers the signal only to a child that has not ended (kill looks for the
\* child's handle, gone once it has exited, and neither signals nor throws
\* without it). The reference is never cleared, so each run of the listener
\* signals a child that is still alive. main2 registers no such listener.
OnBeforeQuit(im, bp, bs) ==
  IF im = "main1" /\ bp # 0 /\ bs[bp].status = "running"
  THEN [bs EXCEPT ![bp].signals = @ + 1]
  ELSE bs

\* the before-quit event of a quit the user asks for (menu, Cmd+Q). A quit
\* that a window refuses is abandoned, and the next one emits the event anew.
BeforeQuit ==
  /\ app.ready
  /\ ~app.exited
  /\ app.quits < MaxQuits
  /\ app' = [app EXCEPT !.quits = @ + 1]
  /\ backends' = OnBeforeQuit(impl, backendProcess, backends)
  /\ UNCHANGED <<impl, isDev, req, proc, fs, opened, uncaught, clock, keysFile,
                 backendProcess>>

\* an activate listener that brings the backend up again with the window
ActivateStartsBackend ==
  /\ app.ready
  /\ ~app.exited
  /\ app.platform = "darwin"
  /\ app.activates < MaxActivates
  /\ LET a == [app EXCEPT !.activates = @ + 1] IN
     IF impl = "main1" /\ a.windows = 0 /\ Len(backends) < MaxBackends
     THEN /\ StartPythonBackend(TRUE)
          /\ app' = CreateWindow(a, Len(backends'))
     ELSE /\ app' = a
          /\ UNCHANGED <<backendProcess, backends>>
  /\ UNCHANGED <<impl, isDev, req, proc, fs, opened, uncaught, clock, keysFile>>

\* the activate event (macOS, dock icon). main1 listens from whenReady on:
\* if (BrowserWindow.getAllWindows().length === 0) createWindow().
\* main2 has no listener.
Activate ==
  /\ app.ready
  /\ ~app.exited
  /\ app.platform = "darwin"
  /\ app.activates < MaxActivates
  /\ app' = LET a == [app EXCEPT !.activates = @ + 1] IN
            IF impl = "main1" /\ a.windows = 0
            THEN CreateWindow(a, Len(backends)) ELSE a
  /\ UNCHANGED <<impl, isDev, req, proc, fs, opened, uncaught, clock, keysFile,
                 backendProcess, backends>>

\* whether closing the last window quits the application: main1 calls
\* app.quit() unless on darwin; main2 has no listener, and Electron then
\* quits by itself
QuitsOnAllClosed(im, platform) == im = "main2" \/ platform # "darwin"

\* the last window is closed: window-all-closed. When it quits, before-quit
\* is emitted and, no window being left to refuse, the application ends.
WindowAllClosed ==
  /\ app.ready
  /\ ~app.exited
  /\ app.windows > 0
  /\ IF QuitsOnAllClosed(impl, app.platform)
     THEN /\ app.quits < MaxQuits
          /\ app' = [app EXCEPT !.windows = 0, !.quits = @ + 1, !.exited = TRUE]
          /\ backends' = OnBeforeQuit(impl, backendProcess, backends)
     ELSE /\ app' = [app EXCEPT !.windows = 0]
          /\ UNCHANGED backends
  /\ UNCHANGED <<impl, isDev, req, proc, fs, opened, uncaught, clock, keysFile,
                 backendProcess>>

\* after before-quit every window has closed: will-quit, quit, and the main
\* process ends. No listener of either file runs here.
WillQuit ==
  /\ app.quits > 0
  /\ ~app.exited
  /\ app' = [app EXCEPT !.windows = 0, !.exited = TRUE]
  /\ UNCHANGED <<impl, isDev, req, proc, fs, opened, uncaught, clock, keysFile,
                 backendProcess, backends>>

\* ---------------------------------------------------------- specifications
AllPaths == TmpPaths \cup DestPaths \cup {ChartPath(t) : t \in 0..MaxClock}

\* the disk before any request: nothing, or an older file at a destination
InitialFiles ==
  {[p \in AllPaths |-> Absent],
   [p \in AllPaths |-> IF p = <<"dest.out">> THEN "old" ELSE Absent]}

InitOn(ids, platforms) ==
  /\ impl \in Impls
  /\ isDev \in BOOLEAN
  /\ req = [r \in ids |-> IdleReq]
  /\ proc = [r \in ids |-> NoProc]
  /\ fs \in InitialFiles
  /\ opened = {}
  /\ uncaught = 0
  /\ clock = 0
  /\ keysFile = NoKeysFile
  /\ backendProcess = 0
  /\ backends = <<>>
  /\ app \in {InitApp(p) : p \in platforms}

InitWith(ids) == InitOn(ids, {"darwin"})

Ids == DOMAIN req

\* --- the Script Invoker: one invocation, output arriving piece by piece
InitInvoker == InitWith({1}) /\ fs = [p \in AllPaths |-> Absent]

NextInvoker ==
  \/ \E r \in Ids, s \in ScriptInputs, iok, sok \in BOOLEAN :
       CallRunPythonScript(r, s, iok, sok)
  \/ \E r \in Ids, s \in ScriptInputs, iok, sok \in BOOLEAN :
       InvokeRunPython(r, [NoArg EXCEPT !.present = TRUE, !.script = s], iok, sok)
  \/ \E r \in Ids : ResumeRunPython(r)
  \/ \E r \in Ids, c \in OutChars : ChildStdout(r, <<c>>)
  \/ \E r \in Ids, c \in ErrLines : ChildStderr(r, <<c>>)
  \/ \E r \in Ids : ChildStderr(r, PyCantOpen)
  \/ \E r \in Ids, code \in ExitCodes : ChildClose(r, code)
  \/ \E r \in Ids : ChildSpawnError(r)

SpecInvoker == InitInvoker /\ [][NextInvoker]_vars

\* --- the export pipeline: one request, worker output in whole chunks
ExportChunks == {<<"a">>, <<"b">>, <<" ", "a", "\n">>, <<"a", "\n", "b">>}
ExportErrChunks == {<<"Traceback">>, PyCantOpen}

ExportArgs(h) ==
  IF h = "exportPDF"
  THEN {[NoArg EXCEPT !.present = TRUE, !.symbols = TRUE, !.section = s, !.chart = c] :
          s \in Sections, c \in BOOLEAN}
  ELSE {[NoArg EXCEPT !.present = TRUE, !.symbols = TRUE]}

InitExport == InitWith({1})

NextExport ==
  \/ \E r \in Ids, h \in ExportHandlers : \E a \in ExportArgs(h) : InvokeExport(r, h, a)
  \/ \E r \in Ids : DialogCancel(r)
  \/ \E r \in Ids, d \in DestPaths, wok, iok, sok \in BOOLEAN :
       DialogConfirm(r, d, wok, iok, sok)
  \/ \E r \in Ids, p \in TmpPaths : WorkerWrite(r, p, "artifact")
  \/ \E r \in Ids, c \in ExportChunks : ChildStdout(r, c)
  \/ \E r \in Ids, c \in ExportErrChunks : ChildStderr(r, c)
  \/ \E r \in Ids, code \in ExitCodes : ChildClose(r, code)
  \/ \E r \in Ids : ChildSpawnError(r)
  \/ \E r \in Ids : ResumeExport(r)
  \/ \E r \in Ids, o \in OpenOutcomes : OpenSettles(r, o)

SpecExport == InitExport /\ [][NextExport]_vars

\* --- two invocations at a time, each child writing pieces of its own
\* the k-th piece child r writes to its standard output, to its standard error
OutPiece(r, k) == "out" \o ToString(r) \o "." \o ToString(k)
ErrPiece(r, k) == "err" \o ToString(r) \o "." \o ToString(k)

\* all that child r will have written once it is done
OutScript(r) == [k \in 1..MaxOut |-> OutPiece(r, k)]
ErrScript(r) == [k \in 1..MaxErr |-> ErrPiece(r, k)]

InitConcurrentInvoker == InitWith({1, 2}) /\ fs = [p \in AllPaths |-> Absent]

NextConcurrentInvoker ==
  \/ \E r \in Ids, s \in ScriptInputs : CallRunPythonScript(r, s, TRUE, TRUE)
  \/ \E r \in Ids : ChildStdout(r, <<OutPiece(r, Len(proc[r].stdout) + 1)>>)
  \/ \E r \in Ids : ChildStderr(r, <<ErrPiece(r, Len(proc[r].stderr) + 1)>>)
  \/ \E r \in Ids, code \in ExitCodes : ChildClose(r, code)

SpecConcurrentInvoker == InitConcurrentInvoker /\ [][NextConcurrentInvoker]_vars

\* --- two allium PDF exports at a time, the clock running
PdfArgs ==
  {[NoArg EXCEPT !.present = TRUE, !.symbols = TRUE, !.section = "allium", !.chart = c] :
     c \in BOOLEAN}

InitConcurrentExport == InitWith({1, 2}) /\ fs = [p \in AllPaths |-> Absent]

NextConcurrentExport ==
  \/ \E r \in Ids, a \in PdfArgs : InvokeExport(r, "exportPDF", a)
  \/ \E r \in Ids : DialogCancel(r)
  \/ \E r \in Ids : DialogConfirm(r, <<"dest.out">>, TRUE, TRUE, TRUE)
  \/ Tick
  \/ \E r \in Ids : WorkerWrite(r, <<"a">>, "artifact")
  \/ \E r \in Ids : ChildStdout(r, <<"a">>)
  \/ \E r \in Ids, code \in {"0", "1"} : ChildClose(r, code)
  \/ \E r \in Ids : ResumeExport(r)

SpecConcurrentExport == InitConcurrentExport /\ [][NextConcurrentExport]_vars

\* --- the IPC gateway: every channel, with and without its argument
IpcChunks == {<<"{}">>, <<"a">>}
IpcErrChunks == {<<"Traceback">>, PyCantOpen}
FetchOutcomes == {"json", "notjson", "refused"}
Providers == {"binance", "allium"}

Present == [NoArg EXCEPT !.present = TRUE]

IpcArgs(h) ==
  {NoArg} \cup
  CASE h = "exportPDF" ->
         {[Present EXCEPT !.symbols = y, !.section = s] :
            y \in BOOLEAN, s \in {"allium", "binance_polar"}}
    [] h \in ExportHandlers -> {[Present EXCEPT !.symbols = y] : y \in BOOLEAN}
    [] h = "loadData" ->
         {[Present EXCEPT !.section = s, !.extra = e] :
            s \in {"", "marketbrain", "binance_polar"},
            e \in {{}, {"startDate"}}}
    [] h = "saveApiKeys" -> {[Present EXCEPT !.keys = k] : k \in SUBSET Providers}
    [] h \in {"openPath", "runPython"} ->
         {[Present EXCEPT !.script = <<"dest.out">>]}
    [] OTHER -> {}

InitIpc == InitWith({1}) /\ fs = [p \in AllPaths |-> Absent]

NextIpc ==
  \/ \E r \in Ids, h \in ExportHandlers : \E a \in IpcArgs(h) : InvokeExport(r, h, a)
  \/ \E r \in Ids : DialogCancel(r)
  \/ \E r \in Ids, d \in DestPaths, wok, iok, sok \in BOOLEAN :
       DialogConfirm(r, d, wok, iok, sok)
  \/ \E r \in Ids : ResumeExport(r)
  \/ \E r \in Ids : \E a \in IpcArgs("loadData") : InvokeLoadData(r, a)
  \/ \E r \in Ids, o \in FetchOutcomes : FetchDone(r, o)
  \/ \E r \in Ids, wok \in BOOLEAN : \E a \in IpcArgs("saveApiKeys") : SaveApiKeys(r, a, wok)
  \/ \E r \in Ids : LoadApiKeys(r)
  \/ \E r \in Ids : \E a \in IpcArgs("openPath") : OpenPath(r, a)
  \/ \E r \in Ids, iok, sok \in BOOLEAN : \E a \in IpcArgs("runPython") :
       InvokeRunPython(r, a, iok, sok)
  \/ \E r \in Ids : ResumeRunPython(r)
  \/ \E r \in Ids, iok, sok \in BOOLEAN : InvokeGetLidoData(r, iok, sok)
  \/ \E r \in Ids : ResumeGetLidoData(r)
  \/ \E r \in Ids, p \in TmpPaths : WorkerWrite(r, p, "artifact")
  \/ \E r \in Ids, c \in IpcChunks : ChildStdout(r, c)
  \/ \E r \in Ids, c \in IpcErrChunks : ChildStderr(r, c)
  \/ \E r \in Ids, code \in ExitCodes : ChildClose(r, code)
  \/ \E r \in Ids : ChildSpawnError(r)

SpecIpc == InitIpc /\ [][NextIpc]_vars

\* --- the backend supervisor, its start callable again
InitSupervisor == InitWith({1}) /\ fs = [p \in AllPaths |-> Absent]

NextSupervisor ==
  \/ \E iok \in BOOLEAN : WhenReady(iok)
  \/ \E iok \in BOOLEAN : StartAgain(iok)
  \/ \E i \in 1..MaxBackends : BackendExit(i)
  \/ \E i \in 1..MaxBackends : BackendSpawnError(i)
  \/ BeforeQuit

SpecSupervisor == InitSupervisor /\ [][NextSupervisor]_vars

\* --- the application lifecycle as the two files drive it: one start, from
\* whenReady
InitLifecycle == InitOn({1}, Platforms) /\ fs = [p \in AllPaths |-> Absent]

NextLifecycle ==
  \/ \E iok \in BOOLEAN : WhenReady(iok)
  \/ Activate
  \/ WindowAllClosed
  \/ BeforeQuit
  \/ WillQuit
  \/ \E i \in 1..MaxBackends : BackendExit(i)
  \/ \E i \in 1..MaxBackends : BackendSpawnError(i)

SpecLifecycle == InitLifecycle /\ [][NextLifecycle]_vars

\* --- the environment resolver: two invocations, any caller-supplied script
InitResolver == InitWith({1, 2}) /\ fs = [p \in AllPaths |-> Absent]

NextResolver ==
  \/ \E r \in Ids, s \in CallerScripts : CallRunPythonScript(r, s, TRUE, TRUE)
  \/ \E r \in Ids, s \in CallerScripts :
       InvokeRunPython(r, [NoArg EXCEPT !.present = TRUE, !.script = s], TRUE, TRUE)
  \/ \E r \in Ids : InvokeGetLidoData(r, TRUE, TRUE)

SpecResolver == InitResolver /\ [][NextResolver]_vars

\* --- the output contract: two requests of one handler, one worker ending
\* with code 0 and one with another code. A worker writes what it likes to
\* its standard error, the texts of the main process's own errors included.
\* Each stream carries one chunk at most.
ContractChunks == {<<"a">>, <<"{}">>}
ContractErrChunks == {JsonSyntaxMsg, CopyEnoentMsg}

ContractArgs(h) ==
  {[NoArg EXCEPT !.present = TRUE, !.symbols = TRUE,
                 !.section = IF h = "exportPDF" THEN "binance_market" ELSE ""]}

InitContract == InitWith({1, 2}) /\ fs = [p \in AllPaths |-> Absent]

NextContract ==
  \/ \E r \in Ids : InvokeGetLidoData(r, TRUE, TRUE)
  \/ \E r \in Ids : ResumeGetLidoData(r)
  \/ \E r \in Ids, h \in ExportHandlers : \E a \in ContractArgs(h) : InvokeExport(r, h, a)
  \/ \E r \in Ids : DialogConfirm(r, <<"dest.out">>, TRUE, TRUE, TRUE)
  \/ \E r \in Ids : WorkerWrite(r, <<"a">>, "artifact")
  \/ \E r \in Ids, c \in ContractChunks : proc[r].stdout = <<>> /\ ChildStdout(r, c)
  \/ \E r \in Ids, c \in ContractErrChunks : proc[r].stderr = <<>> /\ ChildStderr(r, c)
  \/ \E r \in Ids, code \in {"0", "1"} : ChildClose(r, code)
  \/ \E r \in Ids : ResumeExport(r)

SpecContract == InitContract /\ [][NextContract]_vars

\* --- the backend service and the data loads that depend on it
\* some Flask child is running
BackendUp == \E i \in DOMAIN backends : backends[i].status = "running"

\* the fetch of a loadData request ends. Nothing listens on the port without
\* a running backend: the connection is refused.
FetchFromBackend(r, outcome) ==
  /\ BackendUp \/ outcome = "refused"
  /\ FetchDone(r, outcome)

InitService == InitWith({1, 2}) /\ fs = [p \in AllPaths |-> Absent]

NextService ==
  \/ \E iok \in BOOLEAN : WhenReady(iok)
  \/ \E i \in 1..MaxBackends : BackendExit(i)
  \/ \E i \in 1..MaxBackends : BackendSpawnError(i)
  \/ Activate
  \/ WindowAllClosed
  \/ \E r \in Ids : \E a \in IpcArgs("loadData") : InvokeLoadData(r, a)
  \/ \E r \in Ids, o \in FetchOutcomes : FetchFromBackend(r, o)

SpecService == InitService /\ [][NextService]_vars


\* --- the API key store: three requests, handled one after the other in the
\* order of their ids (the main process runs each of these handlers to its
\* end before the next one starts)
KeySets == SUBSET {KeyNames[i] : i \in DOMAIN KeyNames}
InOrder(r) == \A x \in Ids : x < r => req[x].pc = "done"

InitApiKeys == InitWith({1, 2, 3}) /\ fs = [p \in AllPaths |-> Absent]

NextApiKeys ==
  \/ \E r \in Ids, k \in KeySets :
       InOrder(r) /\ SaveApiKeys(r, [NoArg EXCEPT !.present = TRUE, !.keys = k], TRUE)
  \/ \E r \in Ids : InOrder(r) /\ SaveApiKeys(r, NoArg, TRUE)
  \/ \E r \in Ids : InOrder(r) /\ LoadApiKeys(r)

SpecApiKeys == InitApiKeys /\ [][NextApiKeys]_vars


\* --- the packaged application: the build step first, then the backend and
\* one request that runs a worker
PackagedArgs(h) ==
  {[NoArg EXCEPT !.present = TRUE, !.symbols = TRUE, !.section = s] :
     s \in (IF h = "exportPDF" THEN WiredSections ELSE {""})}

InitPackaged == InitWith({1}) /\ ~isDev /\ fs = [p \in AllPaths |-> Absent]

NextPackaged ==
  \/ \E ok \in BOOLEAN : AfterPack(ok)
  \/ \E iok \in BOOLEAN : app.packed /\ WhenReady(iok)
  \/ \E i \in 1..MaxBackends : BackendExit(i)
  \/ \E i \in 1..MaxBackends : BackendSpawnError(i)
  \/ \E r \in Ids, iok \in BOOLEAN : app.ready /\ InvokeGetLidoData(r, iok, TRUE)
  \/ \E r \in Ids : ResumeGetLidoData(r)
  \/ \E r \in Ids, h \in ExportHandlers : \E a \in PackagedArgs(h) :
       app.ready /\ InvokeExport(r, h, a)
  \/ \E r \in Ids : DialogCancel(r)
  \/ \E r \in Ids, iok \in BOOLEAN : DialogConfirm(r, <<"dest.out">>, TRUE, iok, TRUE)
  \/ \E r \in Ids : WorkerWrite(r, <<"a">>, "artifact")
  \/ \E r \in Ids : proc[r].stdout = <<>> /\ ChildStdout(r, <<"a">>)
  \/ \E r \in Ids, code \in {"0", "1"} : ChildClose(r, code)
  \/ \E r \in Ids : ChildSpawnError(r)
  \/ \E r \in Ids : ResumeExport(r)

SpecPackaged == InitPackaged /\ [][NextPackaged]_vars

\* ------------------------------------------------------------- properties
SeqsUpTo(A, n) == UNION {[1..k -> A] : k \in 0..n}

\* v is s without its leading and trailing whitespace
IsTrimOf(v, s) ==
  \E i, j \in 0..Len(s) :
    /\ i <= j
    /\ v = SubSeq(s, i + 1, j)
    /\ \A k \in 1..i : s[k] \in WS
    /\ \A k \in (j + 1)..Len(s) : s[k] \in WS
    /\ v = <<>> \/ (v[1] \notin WS /\ v[Len(v)] \notin WS)

\* C2: after the close event, exit code 0 has resolved the promise with the
\* accumulated standard output trimmed of surrounding whitespace; any other
\* code, null included, has rejected it with the accumulated standard error,
\* or with 'Python exited with code N' when standard error is empty; the
\* failure message is never empty.
C2_CloseClassifiesByExitCode ==
  \A r \in Ids :
    proc[r].status = "closed" =>
      IF proc[r].code = "0"
      THEN /\ proc[r].promise = "resolved"
           /\ IsTrimOf(proc[r].value, proc[r].stdout)
      ELSE /\ proc[r].promise = "rejected"
           /\ proc[r].value # <<>>
           /\ proc[r].stderr # <<>> => proc[r].value = proc[r].stderr
           /\ proc[r].stderr = <<>> =>
                proc[r].value = <<"Python exited with code ", proc[r].code>>

\* a signal-killed child that wrote nothing to standard error
C2_Witness ==
  \E r \in Ids :
    /\ proc[r].status = "closed"
    /\ proc[r].code = "null"
    /\ proc[r].stderr = <<>>
    /\ proc[r].stdout = <<" ", "a", "\n">>
    /\ proc[r].promise = "rejected"

\* C3: once the child has emitted 'error' (the interpreter could not be
\* spawned), the promise is rejected, and not by the close handler.
C3_SpawnErrorRejects ==
  \A r \in Ids :
    proc[r].status = "errored" =>
      proc[r].promise = "rejected" /\ proc[r].code = "none"

\* what the close handler can reject with after a worker ran and exited
\* nonzero
WorkerFailureValues ==
  {RejectMessage(e, c) : e \in SeqsUpTo(ErrLines, MaxErr), c \in ExitCodes \ {"0"}}

\* C4: an invocation naming a script that does not exist completes as a
\* failure that no worker which ran and exited nonzero can produce.
C4_MissingScriptIsSpawnFailure ==
  \A r \in Ids :
    (~proc[r].scriptOK /\ proc[r].promise \in {"resolved", "rejected"}) =>
      /\ proc[r].promise = "rejected"
      /\ proc[r].value \notin WorkerFailureValues

\* C1: a request whose save dialog was cancelled has spawned no worker and
\* written no chart-image file, in each of the three export handlers.
C1_CancelSpawnsNothing ==
  \A r \in Ids :
    (req[r].handler \in ExportHandlers /\ req[r].canceled) =>
      /\ req[r].spawns = 0
      /\ proc[r].status = "none"
      /\ req[r].chart = <<>>
      /\ ~Exists(fs, ChartPath(clock))

\* a cancelled allium PDF export that carried a chart image
C1_Witness ==
  \E r \in Ids :
    /\ req[r].handler = "exportPDF"
    /\ req[r].arg.section = "allium"
    /\ req[r].arg.chart
    /\ req[r].canceled
    /\ req[r].pc = "done"

\* the error text exportPDF gives for a section it does not know
UnknownSectionError(im, dev) ==
  LET p == PdfPlan(im, dev,
                   [NoArg EXCEPT !.present = TRUE, !.symbols = TRUE, !.section = "eth"], 0)
  IN  IF p.kind = "throw" THEN p.msg ELSE p.res.error

\* C5: every finished exportPDF request for section binance_polar, whatever
\* the dialog answer, returned a failure with an error message, and that
\* message is not the one an unknown section gets.
C5_PolarDisabledMessage ==
  \A r \in Ids :
    (req[r].handler = "exportPDF" /\ req[r].arg.section = "binance_polar"
       /\ req[r].pc = "done") =>
      /\ req[r].ipc = "resolved"
      /\ req[r].result.defined
      /\ "error" \in req[r].result.keys
      /\ ~req[r].result.success
      /\ req[r].result.error # <<>>
      /\ req[r].result.error # UnknownSectionError(impl, isDev)

\* a returned object that reports failure
IsFailure(res) ==
  /\ res.defined
  /\ \/ "error" \in res.keys
     \/ "success" \in res.keys /\ ~res.success

Unwired(r) ==
  /\ req[r].handler = "exportPDF"
  /\ req[r].arg.present
  /\ req[r].arg.section \notin WiredSections

\* C6 as stated: an exportPDF request for a section that is not wired spawns
\* no worker, writes no chart file, copies nothing, shows the dialog at most
\* once, and its result is a Failure value.
C6_Original ==
  \A r \in Ids :
    Unwired(r) =>
      /\ req[r].spawns = 0 /\ proc[r].status = "none"
      /\ req[r].chart = <<>>
      /\ req[r].copies = 0
      /\ req[r].dialogs <= 1
      /\ req[r].pc = "done" => (req[r].ipc = "resolved" /\ IsFailure(req[r].result))

\* C6 as amended: the same, the result being a Failure value unless the user
\* cancelled the dialog; a cancelled request returns the handler's cancel
\* value.
C6_UnwiredFailsFast ==
  \A r \in Ids :
    Unwired(r) =>
      /\ req[r].spawns = 0 /\ proc[r].status = "none"
      /\ req[r].chart = <<>>
      /\ ~Exists(fs, ChartPath(clock))
      /\ req[r].copies = 0 /\ opened = {}
      /\ req[r].dialogs <= 1
      /\ req[r].pc = "done" =>
           /\ req[r].ipc = "resolved"
           /\ IF req[r].canceled
              THEN req[r].result = CancelResult(impl, "exportPDF")
              ELSE IsFailure(req[r].result) /\ req[r].result.error # <<>>

\* a confirmed export of an unknown section with a chart image attached
C6_Witness ==
  \E r \in Ids :
    /\ Unwired(r)
    /\ req[r].arg.section = "eth"
    /\ req[r].arg.chart
    /\ req[r].dest # <<>>
    /\ req[r].pc = "done"
    /\ IsFailure(req[r].result)

\* C7: in every export handler, once the destination is chosen the handler's
\* promise is never rejected: whatever goes wrong is returned as a Failure
\* carrying the error message.
C7_ExportNeverRejects ==
  \A r \in Ids :
    (req[r].handler \in ExportHandlers /\ req[r].dest # <<>>) =>
      /\ req[r].ipc # "rejected"
      /\ (req[r].pc = "done" /\ req[r].copies = 0) =>
           (IsFailure(req[r].result) /\ req[r].result.error # <<>>)

\* a returned object that reports success
IsSuccess(res) ==
  /\ res.defined
  /\ "error" \notin res.keys
  /\ \/ "success" \in res.keys /\ res.success
     \/ "filePath" \in res.keys

\* C9: the step in which an export handler returns success leaves, at the
\* chosen destination, the content of the file whose path the worker printed
\* (its standard output without surrounding whitespace), and leaves that file
\* as it was.
C9_CopiedNotMoved ==
  [][\A r \in Ids :
       (req[r].pc # "done" /\ req'[r].pc = "done" /\ IsSuccess(req'[r].result)) =>
         \E p \in DOMAIN fs :
           /\ IsTrimOf(p, proc[r].stdout)
           /\ Exists(fs, p)
           /\ fs'[req'[r].dest] = fs[p]
           /\ fs'[p] = fs[p]]_vars

\* a successful export whose artifact and destination are different files
C9_Witness ==
  \E r \in Ids :
    /\ req[r].pc = "done"
    /\ IsSuccess(req[r].result)
    /\ req[r].dest = <<"dest.out">>
    /\ proc[r].stdout = <<" ", "a", "\n">>
    /\ fs[<<"dest.out">>] = "artifact"
    /\ fs[<<"a">>] = "artifact"

\* C8: no IPC handler lets an exception reach the GUI process, whatever
\* argument it is given: every finished request has a resolved promise that
\* carries a structured result or a structured error.
C8_HandlersNeverThrow ==
  \A r \in Ids :
    req[r].handler \in Registered(impl) =>
      /\ req[r].ipc # "rejected"
      /\ req[r].pc = "done" => req[r].result.defined

\* the Flask children that are alive
Live == {i \in 1..Len(backends) : backends[i].status = "running"}

\* C10: starting the backend while an instance is running spawns no second
\* process and keeps the reference to the first: there are never two live
\* backend processes, and a live one is always the one backendProcess names.
C10_NoDuplicateBackend ==
  /\ Cardinality(Live) <= 1
  /\ \A i \in Live : backendProcess = i

\* C11: stopping the backend is idempotent: a run of the stop path delivers
\* a kill signal only to a backend that is still running and has not been
\* signalled before; a second run, or a run after the backend has ended on
\* its own, delivers nothing.
C11_StopIdempotent ==
  [][\A i \in DOMAIN backends :
       backends'[i].signals > backends[i].signals =>
         (backends[i].status = "running" /\ backends[i].signals = 0)]_vars

\* C12: once the application has shut down, a backend the shutdown found
\* running has been sent SIGTERM, and no backend is ever sent it more than
\* once.
C12_SigtermExactlyOnce ==
  \A i \in DOMAIN backends :
    /\ backends[i].signals <= 1
    /\ (app.exited /\ backends[i].status = "running") => backends[i].signals = 1

\* C13: over the lifecycle events the backend is spawned exactly once, at
\* ready time: none before the ready event, one ever after, and that one was
\* already spawned when the first window was created.
C13_BackendSpawnedOnce ==
  /\ Len(backends) = IF app.ready THEN 1 ELSE 0
  /\ app.ready => backendProcess = 1
  /\ ~app.ready => app.created = 0
  /\ app.created > 0 => app.atFirstWindow = 1

\* the window closed and re-created on activate, activate repeated, a quit
\* begun
C13_Witness ==
  /\ impl = "main1"
  /\ app.activates >= 2
  /\ app.created >= 2
  /\ app.quits >= 1
  /\ Len(backends) = 1

\* the directory the packaged build keeps its worker scripts in
PackagedScriptsDir(im) ==
  IF im = "main1" THEN Join(ResourcesPath, <<"python", "whalescope_scripts">>)
  ELSE Join(ProjectRoot(im, FALSE), <<"whalescope_scripts">>)

\* invocations whose script the caller supplied
CallerSupplied(r) ==
  /\ req[r].handler \in {"runPythonScript", "runPython"}
  /\ proc[r].status # "none"

\* C14: in the packaged build, whatever path or name the caller supplies,
\* the script passed to the interpreter is a file directly inside the
\* packaged worker-script directory, named by the base file name of what the
\* caller gave.
C14_PackagedBasenameOnly ==
  \A r \in Ids :
    (~isDev /\ CallerSupplied(r)) =>
      /\ proc[r].script = PackagedScriptsDir(impl) \o Basename(req[r].arg.script)
      /\ Len(proc[r].script) = Len(PackagedScriptsDir(impl)) + 1
      /\ proc[r].script[Len(proc[r].script)] # ".."

\* path.dirname
DirOf(p) == SubSeq(p, 1, Len(p) - 1)

\* one path equal to the other or inside it
Nested(p, q) ==
  \/ Len(p) <= Len(q) /\ SubSeq(q, 1, Len(p)) = p
  \/ Len(q) <= Len(p) /\ SubSeq(p, 1, Len(q)) = q

\* the script arguments the handlers of a build pass to runPythonScript
HandlerScripts(im, dev) ==
  {ExportPlan(im, dev, h, [NoArg EXCEPT !.present = TRUE, !.symbols = TRUE,
                                        !.section = sec], 0).script :
     h \in ExportHandlers, sec \in WiredSections}
  \cup (IF im = "main1"
        THEN {Join(ProjectRoot(im, dev), ScriptsDir \o <<"lido_staking.py">>)}
        ELSE {})

\* the directories a build resolves its worker scripts in
ScriptDirs(im, dev) ==
  {DirOf(RealScriptPath(im, dev, sc)) : sc \in HandlerScripts(im, dev)}

C16_ChartPathsDistinct ==
  /\ \A r1, r2 \in Ids :
       (r1 # r2 /\ req[r1].chart # <<>> /\ req[r2].chart # <<>>) =>
         req[r1].chart # req[r2].chart
  /\ \A r \in Ids :
       (req[r].chart # <<>> /\ proc[r].status = "running") =>
         fs[req[r].chart] = ChartImage(r)

\* the text after the last line break of s, s = <<>> included
RECURSIVE AfterLastBreak(_)
AfterLastBreak(s) ==
  IF \E i \in 1..Len(s) : s[i] = "\n"
  THEN AfterLastBreak(Tail(s))
  ELSE s

\* the final line a worker wrote, trimmed: a line break that ends the output
\* ends the final line
FinalLine(s) == Trim(AfterLastBreak(Trim(s)))

\* C17: a resolved invocation carries the trimmed final line of the worker's
\* standard output, also when the worker wrote several lines: the value has
\* no line break inside and no whitespace around it.
C17_ResolvesWithFinalLine ==
  \A r \in Ids :
    proc[r].promise = "resolved" =>
      /\ proc[r].value = FinalLine(proc[r].stdout)
      /\ \A i \in 1..Len(proc[r].value) : proc[r].value[i] # "\n"

\* the place of a step in the order of an export
Rank(step) ==
  CASE step = "prompt" -> 1 [] step = "write" -> 2 [] step = "spawn" -> 3
    [] step = "copy" -> 5 [] step = "open" -> 6 [] OTHER -> 7

Did(r, step) == \E i \in 1..Len(req[r].steps) : req[r].steps[i] = step

\* C18: the steps of one export request are taken in the fixed order
\* prompt, chart-image write, spawn, (worker exit,) copy, open, return, each
\* at most once; the chart image is written only for allium with an image;
\* the worker is spawned only after the prompt has been answered with a
\* destination; the copy starts only after the worker has exited with code
\* 0; the open follows the copy at once and the return ends the request.
C18_StepsInOrder ==
  \A r \in Ids :
    req[r].handler \in ExportHandlers =>
      LET st == req[r].steps IN
      /\ \A i, j \in 1..Len(st) : i < j => Rank(st[i]) < Rank(st[j])
      /\ req[r].arg.present => (st # <<>> /\ st[1] = "prompt")
      /\ Did(r, "write") =>
           (req[r].handler = "exportPDF" /\ req[r].arg.section = "allium"
              /\ req[r].arg.chart /\ req[r].dest # <<>>)
      /\ (Did(r, "spawn") /\ req[r].arg.section = "allium" /\ req[r].arg.chart) =>
           (Did(r, "write") /\ Exists(fs, req[r].chart))
      /\ Did(r, "spawn") <=> proc[r].status # "none"
      /\ Did(r, "spawn") => (req[r].dest # <<>> /\ ~req[r].canceled)
      /\ Did(r, "copy") =>
           (Did(r, "spawn") /\ proc[r].status = "closed" /\ proc[r].code = "0")
      /\ Did(r, "open") <=> req[r].copies = 1
      /\ Did(r, "open") => (Did(r, "copy") /\ req[r].dest \in opened)
      /\ req[r].pc = "done" <=> (st # <<>> /\ Rank(st[Len(st)]) = 7)

\* an allium export with a chart image that went through every step
C18_Witness ==
  \E r \in Ids :
    req[r].steps = <<"prompt", "write", "spawn", "copy", "open", "return">>

\* C19: the step that copies the artifact to the destination also returns
\* the success result carrying the destination path, with the open handed
\* to the viewer and not waited for; whatever becomes of the open afterwards
\* leaves the returned result as it is.
C19_OpenFireAndForget ==
  [][\A r \in Ids :
       /\ req'[r].copies > req[r].copies =>
            /\ req'[r].pc = "done" /\ req'[r].ipc = "resolved"
            /\ IsSuccess(req'[r].result)
            /\ "filePath" \in req'[r].result.keys
            /\ req'[r].result.filePath = req'[r].dest
            /\ req'[r].open = "pending"
            /\ req'[r].dest \in opened'
       /\ (req[r].open = "pending" /\ req'[r].open # "pending") =>
            /\ req[r].pc = "done"
            /\ req'[r].result = req[r].result
            /\ req'[r].ipc = req[r].ipc]_vars

IsPrefix(p, s) == Len(p) <= Len(s) /\ SubSeq(s, 1, Len(p)) = p

\* C20: with invocations running at the same time, the standard-output
\* buffer of each holds the pieces its own child wrote to standard output,
\* in the order written, and nothing else; likewise its standard-error
\* buffer; and a settled invocation carries its own trimmed output, its own
\* standard error, or the exit message of its own code.
C20_BuffersPerInvocation ==
  \A r \in Ids :
    /\ IsPrefix(proc[r].stdout, OutScript(r))
    /\ IsPrefix(proc[r].stderr, ErrScript(r))
    /\ proc[r].promise = "resolved" => proc[r].value = Trim(proc[r].stdout)
    /\ proc[r].promise = "rejected" =>
         proc[r].value = RejectMessage(proc[r].stderr, proc[r].code)

\* both children wrote to both streams, their events interleaved, one
\* invocation resolved and the other rejected
C20_Witness ==
  /\ proc[1].promise = "resolved" /\ Len(proc[1].stdout) >= 2 /\ proc[1].stderr # <<>>
  /\ proc[2].promise = "rejected" /\ Len(proc[2].stderr) >= 2 /\ proc[2].stdout # <<>>

\* the worker of r ended with code 0 and the handler could not use what it
\* printed: no JSON text (getLidoData), no path of an existing file (exports)
ContractViolated(r) ==
  /\ req[r].pc = "done"
  /\ proc[r].status = "closed" /\ proc[r].code = "0"
  /\ req[r].ipc = "rejected" \/ "error" \in req[r].result.keys

\* the worker of r ended with a code other than 0
WorkerFailed(r) ==
  /\ req[r].pc = "done"
  /\ proc[r].status = "closed" /\ proc[r].code # "0"

\* what the caller of a request gets to see
Outcome(r) == <<req[r].ipc, req[r].result, req[r].thrown>>

\* C21: of two requests to the same handler, one whose worker exited with
\* code 0 but broke its output contract and one whose worker exited nonzero,
\* the callers never get the same outcome.
C21_ContractViolationDistinct ==
  \A r1, r2 \in Ids :
    (req[r1].handler = req[r2].handler /\ ContractViolated(r1) /\ WorkerFailed(r2)) =>
      Outcome(r1) # Outcome(r2)

\* the backend was started and has exited
BackendGone ==
  /\ \E i \in DOMAIN backends : backends[i].status = "exited"
  /\ ~BackendUp

\* C22: once the backend has exited, no step starts another one or brings
\* an exception to the main process, and every step of a loadData request
\* leaves it unrejected and, when it ends the request, with a structured
\* {error} result.
C22_LoadDataFailsSoftly ==
  [][BackendGone =>
       /\ backends' = backends
       /\ backendProcess' = backendProcess
       /\ uncaught' = uncaught
       /\ \A r \in Ids :
            (req'[r] # req[r] /\ req'[r].handler = "loadData") =>
              /\ req'[r].ipc # "rejected"
              /\ req'[r].pc = "done" =>
                   (req'[r].result.defined /\ "error" \in req'[r].result.keys)]_vars

\* C23: the URL a loadData request fetches is /api/{section} at the local
\* address; for section binance_polar it has no query string whatever else
\* was supplied; for any other section its query string has every supplied
\* parameter but section, and no section key.
C23_LoadDataUrl ==
  \A r \in Ids :
    (req[r].handler = "loadData" /\ req[r].pc \in {"awaitFetch", "done"}
       /\ req[r].arg.present) =>
      LET a == req[r].arg
          u == req[r].url
      IN
      /\ u.section = (IF a.section = "" THEN "undefined" ELSE a.section)
      /\ a.section = "binance_polar" => (~u.query /\ u.keys = {})
      /\ a.section # "binance_polar" =>
           (u.query /\ "section" \notin u.keys /\ u.keys = a.extra)

\* a finished request for another section with a further parameter
C23_Witness ==
  \E r \in Ids :
    /\ req[r].handler = "loadData"
    /\ req[r].pc = "done"
    /\ req[r].arg.section = "marketbrain"
    /\ req[r].arg.extra = {"startDate"}
    /\ req[r].url.keys = {"startDate"}

\* the successful saves handled before request r
SavesBefore(r) ==
  {x \in Ids : /\ x < r
               /\ req[x].handler = "saveApiKeys"
               /\ req[x].ipc = "resolved"
               /\ req[x].result.defined
               /\ req[x].result.success}

Latest(xs) == CHOOSE x \in xs : \A y \in xs : y <= x

\* C24: loadApiKeys returns exactly the key set of the most recent successful
\* save, with nothing left of the saves before it; when no save has happened
\* it returns success=false and an empty key set.
C24_LoadReturnsLatestSave ==
  \A r \in Ids :
    (req[r].handler = "loadApiKeys" /\ req[r].pc = "done") =>
      /\ req[r].ipc = "resolved"
      /\ req[r].result.defined
      /\ "keys" \in req[r].result.keys
      /\ IF SavesBefore(r) = {}
         THEN ~req[r].result.success /\ req[r].result.keysOut = {}
         ELSE /\ req[r].result.success
              /\ req[r].result.keysOut = req[Latest(SavesBefore(r))].arg.keys

\* two saves with different keys, then a load that has the second only
C24_Witness ==
  /\ req[1].handler = "saveApiKeys" /\ req[1].arg.keys = {"binance"}
  /\ req[2].handler = "saveApiKeys" /\ req[2].arg.keys = {"allium"}
  /\ SavesBefore(3) = {1, 2}
  /\ req[3].handler = "loadApiKeys" /\ req[3].pc = "done"
  /\ req[3].result.keysOut = {"allium"}

\* C25: in every export handler a cancelled save dialog yields a result of
\* its own kind: a value that carries canceled = true and neither an error
\* nor a success = false marker.
C25_CancelIsFirstClass ==
  \A r \in Ids :
    (req[r].handler \in ExportHandlers /\ req[r].canceled /\ req[r].pc = "done") =>
      /\ req[r].ipc = "resolved"
      /\ req[r].result.defined
      /\ "canceled" \in req[r].result.keys
      /\ req[r].result.canceled
      /\ "error" \notin req[r].result.keys
      /\ ~("success" \in req[r].result.keys /\ ~req[r].result.success)

\* C26: the promise of runPythonScript is never pending once its child has
\* terminated or has failed to start, and once it is settled neither its
\* state nor its value changes again.
C26_SettledExactlyOnce ==
  /\ [](\A r \in Ids :
         proc[r].status \in {"closed", "errored"} =>
           proc[r].promise \in {"resolved", "rejected"})
  /\ [][\A r \in Ids :
          proc[r].promise \in {"resolved", "rejected"} =>
            /\ proc'[r].promise = proc[r].promise
            /\ proc'[r].value = proc[r].value]_vars

\* the arguments the claim gives for each section
AlliumForm(chart) ==
  <<S(Upper(Symbol)), S(StartDate), S(EndDate)>>
    \o (IF chart # <<>> THEN <<chart>> ELSE <<>>)
BinanceMarketForm ==
  <<S(Upper(Symbol)), S("--start-date"), S(StartDate), S("--end-date"), S(EndDate)>>

\* C27: the arguments given to the PDF worker are, for section allium, the
\* upper-cased symbol and the two dates followed by the chart path exactly
\* when a chart image came with the request; for section binance_market the
\* upper-cased symbol and the two dates behind their flags, never a chart
\* path; and the other implementation gives the same list for the same
\* request.
C27_PdfArgsAgree ==
  \A r \in Ids :
    (req[r].handler = "exportPDF" /\ proc[r].status # "none") =>
      LET a == req[r].arg
          chart == IF a.chart THEN ChartPath(clock) ELSE <<>>
      IN
      /\ a.section \in {"allium", "binance_market"}
      /\ a.section = "allium" => proc[r].args = AlliumForm(chart)
      /\ a.section = "binance_market" => proc[r].args = BinanceMarketForm
      /\ PdfPlan("main1", isDev, a, clock).args = proc[r].args
      /\ PdfPlan("main2", isDev, a, clock).args = proc[r].args

\* the second implementation has spawned the allium worker for a request
\* that came with a chart image
C27_Witness ==
  \E r \in Ids :
    /\ impl = "main2"
    /\ req[r].handler = "exportPDF"
    /\ req[r].arg.section = "allium"
    /\ req[r].arg.chart
    /\ proc[r].status # "none"
    /\ Len(proc[r].args) = 4
    /\ proc[r].args[4] = req[r].chart

\* the worker of export request r did not start, or ended with a code other
\* than 0
ExportWorkerFailed(r) ==
  /\ req[r].handler \in ExportHandlers
  /\ \/ proc[r].status \in {"spawnfail", "errored"}
     \/ proc[r].status = "closed" /\ proc[r].code # "0"

\* C28: an export request whose worker failed has made no copy and no open,
\* the viewer was not launched for its destination, and from the failure on
\* no file changes and nothing is opened: the destination stays as it was.
C28_FailedWorkerLeavesDestination ==
  /\ [](\A r \in Ids :
         ExportWorkerFailed(r) =>
           /\ req[r].copies = 0
           /\ req[r].open = "none"
           /\ ~Did(r, "copy") /\ ~Did(r, "open")
           /\ req[r].dest \notin opened)
  /\ [][(\E r \in Ids : ExportWorkerFailed(r)) =>
          (fs' = fs /\ opened' = opened)]_vars

\* the worker wrote a file, printed its path and exited with code 1; the
\* handler has returned
C28_Witness ==
  \E r \in Ids :
    /\ ExportWorkerFailed(r)
    /\ proc[r].code = "1"
    /\ proc[r].wrote
    /\ Exists(fs, Trim(proc[r].stdout))
    /\ req[r].pc = "done"

\* the interpreters and the scripts of the children spawned so far
SpawnedInterpreters ==
  {backends[i].python : i \in DOMAIN backends}
    \cup {proc[r].python : r \in {x \in Ids : proc[x].status # "none"}}

SpawnedScripts ==
  {backends[i].script : i \in DOMAIN backends}
    \cup {proc[r].script : r \in {x \in Ids : proc[x].status # "none"}}

\* C29: in the packaged application every interpreter that is spawned, for
\* the backend or for a worker, is the file the afterPack step changes the
\* mode of.
C29_MarkedInterpreterIsSpawned ==
  (~isDev /\ app.packed) => \A p \in SpawnedInterpreters : p = AfterPackPython

\* C30: in the packaged application the scripts of all spawned children, the
\* backend and the workers, lie in one directory, and all children run the
\* same interpreter.
C30_OneScriptDirectory ==
  ~isDev =>
    /\ \A s1, s2 \in SpawnedScripts : DirOf(s1) = DirOf(s2)
    /\ \A p1, p2 \in SpawnedInterpreters : p1 = p2

====
